---- MODULE Spec2Model ----
(***************************************************************************)
(* Rainfall Prediction Pro (src/app.py): a Streamlit page.  Every user     *)
(* interaction (slider move, preset button, predict button, new session)   *)
(* re-executes the script top to bottom.  One action below is one such     *)
(* interaction: the widget's effect on st.session_state followed by the    *)
(* whole script run.                                                       *)
(*                                                                         *)
(* Float fields (pressure, dewpoint, sunshine) are held in tenths, the     *)
(* sliders' step (0.1): 995.0 is 9950, -3.7 is -37.  Forecast temperatures *)
(* are whole degrees, as np.random.randint returns them.                   *)
(***************************************************************************)
EXTENDS Integers, Sequences, FiniteSets, TLC

VARIABLES
    ss,           \* st.session_state: the seven slider keys
    event,        \* the interaction that triggered the latest script run
    artifactSeen, \* what the latest run found in rainfall_prediction_model.pkl; "unread" if it did not open it
    input_df,     \* the one-row DataFrame of the latest run: [columns, row]
    outcome,      \* what the "Prediction Outcome" section shows
    errMsg,       \* the {e} of "An error occurred: {e}", or "-"
    clfUsed,      \* the object whose predict() the latest run called, or "none"
    clfInput,     \* the row handed to that predict(), or << >>
    calls,        \* number of predict() calls made by the latest run
    forecast,     \* the 5-day outlook of the latest run: [dew, entries]
    table,        \* the row shown by st.dataframe in the latest run, << >> if not reached
    rng,          \* state of numpy's global generator (persists across reruns)
    moves,        \* slider moves made so far
    prevKind      \* what the section showed before the latest run: "prediction", "failure", "other"

vars == << ss, event, artifactSeen, input_df, outcome, errMsg, clfUsed, clfInput,
           calls, forecast, table, rng, moves, prevKind >>

----------------------------------------------------------------------------
(* Bounds of the model *)

MaxSliderMoves == 1
RngMod == 12

----------------------------------------------------------------------------
(* Slider declarations, lines 122-132 (floats in tenths) *)

PressureMin == 9500
PressureMax == 10500
DewpointMin == -200
DewpointMax == 400
HumidityMin == 0
HumidityMax == 100
CloudMin == 0
CloudMax == 8
SunshineMin == 0
SunshineMax == 150
WindDirMin == 0
WindDirMax == 360
WindSpeedMin == 0
WindSpeedMax == 150

ForecastDays == 5

SliderKeys == {"pressure", "dewpoint", "humidity", "cloud", "sunshine",
               "winddirection", "windspeed"}

SliderMin(k) ==
    CASE k = "pressure" -> PressureMin
      [] k = "dewpoint" -> DewpointMin
      [] k = "humidity" -> HumidityMin
      [] k = "cloud" -> CloudMin
      [] k = "sunshine" -> SunshineMin
      [] k = "winddirection" -> WindDirMin
      [] k = "windspeed" -> WindSpeedMin

SliderMax(k) ==
    CASE k = "pressure" -> PressureMax
      [] k = "dewpoint" -> DewpointMax
      [] k = "humidity" -> HumidityMax
      [] k = "cloud" -> CloudMax
      [] k = "sunshine" -> SunshineMax
      [] k = "winddirection" -> WindDirMax
      [] k = "windspeed" -> WindSpeedMax

\* Positions a user may try to drag a slider to; the widget only yields those
\* inside [min, max].
DragTargets(k) ==
    CASE k = "pressure" -> {9499, 9500, 10501}
      [] k = "dewpoint" -> {-201, -200, -37, 126, 400, 401}
      [] k = "humidity" -> {-1, 100, 101}
      [] k = "cloud" -> {-1, 0, 9}
      [] k = "sunshine" -> {-1, 150, 151}
      [] k = "winddirection" -> {-1, 360, 361}
      [] k = "windspeed" -> {-1, 150, 151}

SliderDomainNoMax(k) == {v \in DragTargets(k) : SliderMin(k) <= v}

SliderDomain(k) == {v \in DragTargets(k) : SliderMin(k) <= v /\ v <= SliderMax(k)}

----------------------------------------------------------------------------
(* Session state initialisation and presets, lines 80-106 *)

Defaults ==
    [pressure |-> 10150, dewpoint |-> 120, humidity |-> 65, cloud |-> 4,
     sunshine |-> 76, winddirection |-> 180, windspeed |-> 20]

load_rainy_day_partial(s) ==
    [s EXCEPT !.pressure = 9950, !.dewpoint = 200, !.humidity = 95, !.cloud = 8,
              !.winddirection = 210, !.windspeed = 55]

load_rainy_day(s) ==
    [s EXCEPT !.pressure = 9950, !.dewpoint = 200, !.humidity = 95, !.cloud = 8,
              !.sunshine = 5, !.winddirection = 210, !.windspeed = 55]

load_dry_day(s) ==
    [s EXCEPT !.pressure = 10250, !.dewpoint = 50, !.humidity = 40, !.cloud = 1,
              !.sunshine = 120, !.winddirection = 150, !.windspeed = 10]

Presets == {"rainy", "dry"}

OnClick(name, s) == IF name = "rainy" THEN load_rainy_day(s) ELSE load_dry_day(s)

\* A button's on_click callback runs before the script is re-executed, so the
\* run reads the state the callback left: [ss: stored state, view: state the
\* script run reads].
PresetInteractionStale(s, name) == [ss |-> OnClick(name, s), view |-> s]

PresetInteraction(s, name) == [ss |-> OnClick(name, s), view |-> OnClick(name, s)]

----------------------------------------------------------------------------
(* Feature vector, lines 145-151.  A dict is its items in insertion order. *)

DataSwapped(s) ==
    << <<"pressure", s.pressure>>, <<"dewpoint", s.dewpoint>>,
       <<"humidity", s.humidity>>, <<"sunshine", s.sunshine>>,
       <<"cloud", s.cloud>>, <<"winddirection", s.winddirection>>,
       <<"windspeed", s.windspeed>> >>

Data(s) ==
    << <<"pressure", s.pressure>>, <<"dewpoint", s.dewpoint>>,
       <<"humidity", s.humidity>>, <<"cloud", s.cloud>>,
       <<"sunshine", s.sunshine>>, <<"winddirection", s.winddirection>>,
       <<"windspeed", s.windspeed>> >>

\* list(data.keys())
ExpectedColumns(data) == [i \in 1..Len(data) |-> data[i][1]]

\* data[key]
DictGet(data, key) == (CHOOSE i \in 1..Len(data) : data[i][1] = key)

\* pd.DataFrame(data, index=[0])[expected_columns]: one row, the columns
\* selected by name in the order of expected_columns; each column keeps the
\* value it was given.
InputDf(data, cols) ==
    [columns |-> cols,
     row |-> [i \in 1..Len(cols) |-> data[DictGet(data, cols[i])][2]]]

----------------------------------------------------------------------------
(* What rainfall_prediction_model.pkl may hold when the button is clicked.    *)
(* "missing": no such file.  "corrupt": a file pickle cannot parse.  Any      *)
(* other value names the object pickle.load returns.                          *)

Classifiers == {"clf_humid", "clf_pressure", "clf_raises", "clf_fnf"}

Bundles == {"bundle_humid", "bundle_nokey"}

\* The pickled top-level objects: clf_humid only occurs inside bundle_humid.
Pickled == {"bundle_humid", "bundle_nokey", "clf_pressure", "clf_raises",
            "clf_fnf", "not_clf"}

Artifacts == {"missing", "corrupt"} \cup Pickled

\* isinstance(obj, dict)
IsDict(obj) == obj \in Bundles

\* obj.get('model') of a dict: the value under the key, None without the key
GetModel(obj) == IF obj = "bundle_humid" THEN "clf_humid" ELSE "None"

\* hasattr(obj, 'predict')
HasPredict(obj) == obj \in Classifiers

\* model.predict(row) of the external classifier: a label, or the exception it
\* raises.  The row is positional: the classifier reads the slots in its
\* training order.
ClassifierPredict(model, row) ==
    CASE model = "clf_humid" ->
            [exc |-> "-", label |-> IF row[3] >= 80 THEN 1 ELSE 0]
      [] model = "clf_pressure" ->
            [exc |-> "-", label |-> IF row[1] < 10000 THEN 1 ELSE 0]
      [] model = "clf_raises" -> [exc |-> "ValueError", label |-> 0]
      [] model = "clf_fnf" -> [exc |-> "FileNotFoundError", label |-> 0]

----------------------------------------------------------------------------
(* The predict button handler, lines 160-185 *)

\* lines 162-163: open(...) and pickle.load(file)
OpenAndLoad(art) ==
    CASE art = "missing" -> [exc |-> "FileNotFoundError", obj |-> "None"]
      [] art = "corrupt" -> [exc |-> "UnpicklingError", obj |-> "None"]
      [] OTHER -> [exc |-> "-", obj |-> art]

ExtractModelNoUnwrap(loaded_object) == loaded_object

\* line 164
ExtractModel(loaded_object) ==
    IF IsDict(loaded_object) THEN GetModel(loaded_object) ELSE loaded_object

\* lines 172-177
Display(label) == IF label = 1 THEN "rain" ELSE "dry"

NoCall == [clfUsed |-> "none", clfInput |-> << >>, calls |-> 0]

\* lines 162-178, the body of the try: the exception it ends with ("-" for
\* none), what it displayed, and the predict() call it made.
TryBody(art, row) ==
    LET l == OpenAndLoad(art)
        model == ExtractModel(l.obj)
    IN  IF l.exc # "-"
        THEN [exc |-> l.exc, outcome |-> "-", call |-> NoCall]
        ELSE IF model = "None"
        THEN [exc |-> "-", outcome |-> "could_not_load", call |-> NoCall]
        ELSE IF ~HasPredict(model)
        THEN [exc |-> "AttributeError", outcome |-> "-", call |-> NoCall]
        ELSE LET r == ClassifierPredict(model, row)
                 c == [clfUsed |-> model, clfInput |-> row, calls |-> 1]
             IN  IF r.exc # "-"
                 THEN [exc |-> r.exc, outcome |-> "-", call |-> c]
                 ELSE [exc |-> "-", outcome |-> Display(r.label), call |-> c]

HandleCatchAllFirst(exc) ==
    [caught |-> TRUE, outcome |-> "error", msg |-> exc]

HandleNoCatchAll(exc) ==
    IF exc = "FileNotFoundError"
    THEN [caught |-> TRUE, outcome |-> "not_found", msg |-> "-"]
    ELSE [caught |-> FALSE, outcome |-> "uncaught", msg |-> exc]

\* lines 180-183: except FileNotFoundError / except Exception as e
Handle(exc) ==
    IF exc = "FileNotFoundError"
    THEN [caught |-> TRUE, outcome |-> "not_found", msg |-> "-"]
    ELSE [caught |-> TRUE, outcome |-> "error", msg |-> exc]

PredictSectionAlways(clicked, art, row) ==
    LET t == TryBody(art, row)
        h == Handle(t.exc)
    IN  IF t.exc = "-"
        THEN [outcome |-> t.outcome, msg |-> "-", call |-> t.call, completed |-> TRUE]
        ELSE [outcome |-> h.outcome, msg |-> h.msg, call |-> t.call,
              completed |-> h.caught]

\* lines 160-185: if st.button(...): try ... except ... else: st.info(prompt).
\* completed is FALSE when an exception leaves the handler uncaught, which
\* stops the script run.
PredictSection(clicked, art, row) ==
    IF ~clicked
    THEN [outcome |-> "prompt", msg |-> "-", call |-> NoCall, completed |-> TRUE]
    ELSE LET t == TryBody(art, row)
             h == Handle(t.exc)
         IN  IF t.exc = "-"
             THEN [outcome |-> t.outcome, msg |-> "-", call |-> t.call,
                   completed |-> TRUE]
             ELSE [outcome |-> h.outcome, msg |-> h.msg, call |-> t.call,
                   completed |-> h.caught]

----------------------------------------------------------------------------
(* The illustrative forecast, lines 214-225 *)

\* numpy's global generator: a deterministic sequence from an unknown seed.
\* Its state is a number below RngMod; every draw advances it.
NextRng(g) == (g + 5) % RngMod

\* np.random.rand() > 0.5, rand() being g / RngMod
RandGtHalf(g) == 2 * g > RngMod

\* np.random.randint(lo, hi): an integer in [lo, hi)
RandInt(lo, hi, g) == lo + (g % (hi - lo))

PyIntFloor(tenths) == tenths \div 10

\* int(x) of a float: truncation toward zero
PyInt(tenths) == IF tenths >= 0 THEN tenths \div 10 ELSE -((-tenths) \div 10)

\* lines 219-224, one iteration: two draws
ForecastEntry(dew, g) ==
    LET g1 == NextRng(g)
    IN  IF RandGtHalf(g)
        THEN [sky |-> "clear", temp |-> RandInt(PyInt(dew) + 5, PyInt(dew) + 15, g1)]
        ELSE [sky |-> "rainy", temp |-> RandInt(PyInt(dew), PyInt(dew) + 10, g1)]

RECURSIVE ForecastLoop(_, _, _)
\* for i in range(5), from iteration i on: the entries and the generator after
ForecastLoop(i, dew, g) ==
    IF i >= ForecastDays
    THEN [entries |-> << >>, rng |-> g]
    ELSE LET rest == ForecastLoop(i + 1, dew, NextRng(NextRng(g)))
         IN  [entries |-> << ForecastEntry(dew, g) >> \o rest.entries,
              rng |-> rest.rng]

----------------------------------------------------------------------------
(* One execution of the script, lines 145-261, reading session state s:       *)
(* build the frame, run the prediction section, then, unless an uncaught      *)
(* exception stopped the run, the forecast tab and the input table.           *)

Script(s, clicked, art, g) ==
    LET data == Data(s)
        expected_columns == ExpectedColumns(data)
        df == InputDf(data, expected_columns)
        p == PredictSection(clicked, art, df.row)
        f == ForecastLoop(0, s.dewpoint, g)
    IN  [input_df |-> df,
         outcome |-> p.outcome,
         errMsg |-> p.msg,
         call |-> p.call,
         forecast |-> IF p.completed
                      THEN [dew |-> s.dewpoint, entries |-> f.entries]
                      ELSE [dew |-> s.dewpoint, entries |-> << >>],
         table |-> IF p.completed THEN df.row ELSE << >>,
         rng |-> IF p.completed THEN f.rng ELSE g]

\* The variables a script run writes
Rerun(r) ==
    /\ input_df' = r.input_df
    /\ outcome' = r.outcome
    /\ errMsg' = r.errMsg
    /\ clfUsed' = r.call.clfUsed
    /\ clfInput' = r.call.clfInput
    /\ calls' = r.call.calls
    /\ forecast' = r.forecast
    /\ table' = r.table
    /\ rng' = r.rng

NoEventArg == [key |-> "-", value |-> 0]

\* What kind of thing the prediction section shows
OutcomeKind(o) ==
    CASE o \in {"rain", "dry"} -> "prediction"
      [] o \in {"not_found", "could_not_load", "error", "uncaught"} -> "failure"
      [] OTHER -> "other"

\* The first run of the process: any generator state, session state absent,
\* so lines 80-87 set the defaults.
Init ==
    /\ rng \in 0..(RngMod - 1)
    /\ ss = Defaults
    /\ event = [kind |-> "session"] @@ NoEventArg
    /\ artifactSeen = "unread"
    /\ moves = 0
    /\ prevKind = "other"
    /\ LET r == Script(Defaults, FALSE, "unread", rng)
       IN  /\ input_df = r.input_df
           /\ outcome = r.outcome
           /\ errMsg = r.errMsg
           /\ clfUsed = r.call.clfUsed
           /\ clfInput = r.call.clfInput
           /\ calls = r.call.calls
           /\ forecast = r.forecast
           /\ table = r.table

\* A new browser session of the same process: 'pressure' is not in the fresh
\* session state, lines 80-87.
SessionStart ==
    /\ ss' = Defaults
    /\ event' = [kind |-> "session"] @@ NoEventArg
    /\ prevKind' = "other"
    /\ artifactSeen' = "unread"
    /\ (\E r \in {Script(Defaults, FALSE, "unread", rng)} : Rerun(r))
    /\ UNCHANGED moves

\* The user drags slider k to v: the widget stores v under its key and the
\* script is re-executed.
SliderMove ==
    \E k \in SliderKeys : \E v \in SliderDomain(k) :
        /\ moves < MaxSliderMoves
        /\ v # ss[k]
        /\ ss' = [ss EXCEPT ![k] = v]
        /\ event' = [kind |-> "slider", key |-> k, value |-> v]
        /\ moves' = moves + 1
        /\ prevKind' = OutcomeKind(outcome)
        /\ artifactSeen' = "unread"
        /\ (\E r \in {Script(ss', FALSE, "unread", rng)} : Rerun(r))

\* The user clicks "Rainy Day" or "Dry Day", lines 113-117
PresetClick ==
    \E name \in Presets :
        LET i == PresetInteraction(ss, name)
        IN  /\ ss' = i.ss
            /\ event' = [kind |-> name] @@ NoEventArg
            /\ prevKind' = OutcomeKind(outcome)
            /\ artifactSeen' = "unread"
            /\ (\E r \in {Script(i.view, FALSE, "unread", rng)} : Rerun(r))
            /\ UNCHANGED moves

\* The user clicks "Predict Rainfall for Tomorrow" while the file holds art
PredictClick ==
    \E art \in Artifacts :
        /\ artifactSeen' = art
        /\ event' = [kind |-> "predict"] @@ NoEventArg
        /\ prevKind' = OutcomeKind(outcome)
        /\ (\E r \in {Script(ss, TRUE, art, rng)} : Rerun(r))
        /\ UNCHANGED << ss, moves >>

Next == SessionStart \/ SliderMove \/ PresetClick \/ PredictClick

Spec == Init /\ [][Next]_vars

----------------------------------------------------------------------------
(* Properties *)

\* C1: applying a preset leaves the session state equal to exactly that
\* preset's seven literals, whatever the state was before; no field keeps its
\* previous value.
C1_PresetOverwritesAll ==
    /\ event.kind = "rainy" =>
          ss = [pressure |-> 9950, dewpoint |-> 200, humidity |-> 95, cloud |-> 8,
                sunshine |-> 5, winddirection |-> 210, windspeed |-> 55]
    /\ event.kind = "dry" =>
          ss = [pressure |-> 10250, dewpoint |-> 50, humidity |-> 40, cloud |-> 1,
                sunshine |-> 120, winddirection |-> 150, windspeed |-> 10]

\* A preset applied to a state a slider move had changed
C1_Witness ==
    /\ event.kind = "rainy"
    /\ moves = 1
    /\ ss.sunshine = 5
    /\ ss.dewpoint = 200

\* C2: in every reachable state each of the seven fields lies within its
\* slider's declared bounds.
C2_WithinSliderBounds ==
    /\ 9500 <= ss.pressure /\ ss.pressure <= 10500
    /\ -200 <= ss.dewpoint /\ ss.dewpoint <= 400
    /\ 0 <= ss.humidity /\ ss.humidity <= 100
    /\ 0 <= ss.cloud /\ ss.cloud <= 8
    /\ 0 <= ss.sunshine /\ ss.sunshine <= 150
    /\ 0 <= ss.winddirection /\ ss.winddirection <= 360
    /\ 0 <= ss.windspeed /\ ss.windspeed <= 150

\* A slider dragged to the end of its range
C2_Witness ==
    /\ event.kind = "slider"
    /\ event.key = "dewpoint"
    /\ ss.dewpoint = 400

\* C3: the frame handed to the classifier has exactly 7 slots in the order
\* pressure, dewpoint, humidity, cloud, sunshine, winddirection, windspeed,
\* each holding the untransformed value of its field; so two builds from an
\* unchanged state are equal.
C3_FeatureVectorOrder ==
    LET v == << ss.pressure, ss.dewpoint, ss.humidity, ss.cloud, ss.sunshine,
                ss.winddirection, ss.windspeed >>
    IN  /\ Len(input_df.row) = 7
        /\ input_df.columns = << "pressure", "dewpoint", "humidity", "cloud",
                                 "sunshine", "winddirection", "windspeed" >>
        /\ input_df.row = v
        /\ calls = 1 => clfInput = v

\* A classifier was handed the vector of a state no preset produces
C3_Witness ==
    /\ calls = 1
    /\ moves = 1
    /\ ss.cloud = 0
    /\ ss.sunshine # 76
    /\ clfInput[4] = 0

\* C4: a predict click with the artifact file missing shows the "Model file
\* not found" error, calls no classifier, and leaves all seven fields as they
\* were.
C4_MissingArtifact ==
    [][(event'.kind = "predict" /\ artifactSeen' = "missing")
          => /\ outcome' = "not_found"
             /\ calls' = 0
             /\ clfUsed' = "none"
             /\ ss' = ss]_vars

C4_Witness ==
    /\ event.kind = "predict"
    /\ artifactSeen = "missing"
    /\ outcome = "not_found"
    /\ moves = 1

\* C5: the predict action separates its failures: an unparseable artifact, or
\* one without a usable classifier, is reported as an invalid artifact (the
\* "Could not load the model" message); an exception raised by predict() is
\* reported as an inference error carrying its message; and "Model file not
\* found" is reported only when the file is missing.
C5_FailureTaxonomy ==
    event.kind = "predict" =>
        /\ artifactSeen \in {"corrupt", "bundle_nokey", "not_clf"}
              => outcome = "could_not_load"
        /\ artifactSeen = "clf_raises"
              => (outcome = "error" /\ errMsg = "ValueError")
        /\ artifactSeen = "clf_fnf"
              => (outcome = "error" /\ errMsg = "FileNotFoundError")
        /\ outcome = "not_found" => artifactSeen = "missing"

\* C6: every failure of the predict action is recovered inside it: the run
\* still renders the forecast and the input table, the session state is
\* untouched, the classifier is called at most once (no retry), and, whatever
\* the previous run showed, a click with a valid artifact shows a prediction.
C6_FailuresRecovered ==
    [][event'.kind = "predict"
          => /\ ss' = ss
             /\ Len(table') = 7
             /\ table' = input_df'.row
             /\ Len(forecast'.entries) = 5
             /\ calls' <= 1
             /\ artifactSeen' \in {"bundle_humid", "clf_pressure"}
                   => outcome' \in {"rain", "dry"}
             /\ artifactSeen' \notin {"bundle_humid", "clf_pressure"}
                   => outcome' \in {"not_found", "could_not_load", "error"}]_vars

\* A prediction shown by the click that follows a failed one
C6_Witness ==
    /\ prevKind = "failure"
    /\ event.kind = "predict"
    /\ outcome \in {"rain", "dry"}
    /\ Len(table) = 7
    /\ Len(forecast.entries) = 5

\* C7: a bundle with key "model" is used through the nested classifier, a
\* bare classifier through the object itself; either way the classifier is
\* called on the current feature vector and its label is displayed.
C7_BothArtifactShapes ==
    event.kind = "predict" =>
        /\ artifactSeen = "bundle_humid" =>
              /\ clfUsed = "clf_humid"
              /\ calls = 1
              /\ clfInput = input_df.row
              /\ outcome = IF ss.humidity >= 80 THEN "rain" ELSE "dry"
        /\ artifactSeen = "clf_pressure" =>
              /\ clfUsed = "clf_pressure"
              /\ calls = 1
              /\ clfInput = input_df.row
              /\ outcome = IF ss.pressure < 10000 THEN "rain" ELSE "dry"

C7_Witness ==
    /\ event.kind = "predict"
    /\ artifactSeen = "bundle_humid"
    /\ clfUsed = "clf_humid"
    /\ outcome = "rain"

\* C8 as stated: the forecast has 5 entries, and each temperature lies between
\* dewpoint+5 and dewpoint+15 (clear) or dewpoint and dewpoint+10 (rainy) of
\* the current dewpoint.
C8_TempWithinDewpointOffsets ==
    /\ Len(forecast.entries) = 5
    /\ \A i \in 1..Len(forecast.entries) :
          LET e == forecast.entries[i]
          IN  IF e.sky = "clear"
              THEN /\ ss.dewpoint + 50 <= 10 * e.temp
                   /\ 10 * e.temp <= ss.dewpoint + 150
              ELSE /\ ss.dewpoint <= 10 * e.temp
                   /\ 10 * e.temp <= ss.dewpoint + 100

\* C8 amended: the forecast has 5 entries, and each temperature is an integer
\* t with T+5 <= t < T+15 (clear) or T <= t < T+10 (rainy), T being the
\* current dewpoint truncated toward zero.
C8_TempWithinTruncatedOffsets ==
    LET d == ss.dewpoint
        T == IF d >= 0 THEN d \div 10 ELSE -((-d) \div 10)
    IN  /\ Len(forecast.entries) = 5
        /\ \A i \in 1..Len(forecast.entries) :
              LET e == forecast.entries[i]
              IN  IF e.sky = "clear"
                  THEN T + 5 <= e.temp /\ e.temp < T + 15
                  ELSE T <= e.temp /\ e.temp < T + 10

\* A rainy entry of 12 degrees shown for a dewpoint of 12.6
C8_Witness ==
    /\ ss.dewpoint = 126
    /\ \E i \in 1..Len(forecast.entries) :
          forecast.entries[i].sky = "rainy" /\ forecast.entries[i].temp = 12

\* C9: a run calls the classifier at most once, and only when the predict
\* button triggered it; a run triggered by anything else shows the prompt, so
\* an earlier prediction is no longer displayed.
C9_PredictionNotPersisted ==
    /\ calls <= 1
    /\ event.kind # "predict" =>
          /\ calls = 0
          /\ clfUsed = "none"
          /\ clfInput = << >>
          /\ outcome = "prompt"

\* The prompt shown again by the slider move that follows a prediction
C9_Witness ==
    /\ prevKind = "prediction"
    /\ event.kind = "slider"
    /\ outcome = "prompt"
    /\ calls = 0

\* C10: the vector shown in the table, the dewpoint the forecast reads and the
\* vector passed to the classifier are those of the session state left by the
\* interaction that triggered the run: a preset's literals after a preset
\* click, the dragged value after a slider move.
C10_RunReadsStateAfterEvent ==
    /\ event.kind = "rainy" =>
          /\ table = << 9950, 200, 95, 8, 5, 210, 55 >>
          /\ forecast.dew = 200
    /\ event.kind = "dry" =>
          /\ table = << 10250, 50, 40, 1, 120, 150, 10 >>
          /\ forecast.dew = 50
    /\ event.kind = "slider" =>
          /\ \E i \in 1..Len(input_df.columns) :
                input_df.columns[i] = event.key /\ table[i] = event.value
          /\ event.key = "dewpoint" => forecast.dew = event.value
    /\ table = input_df.row
    /\ forecast.dew = ss.dewpoint
    /\ \A i \in 1..Len(input_df.columns) : table[i] = ss[input_df.columns[i]]
    /\ calls = 1 => clfInput = table

\* A preset click following a slider move: the table shows the preset
C10_Witness ==
    /\ event.kind = "dry"
    /\ moves = 1
    /\ table = << 10250, 50, 40, 1, 120, 150, 10 >>
    /\ forecast.dew = 50

====
